---- MODULE Spec2Model ----
(***************************************************************************)
(* The SpeedTest component of src/src/App.js as a state machine.           *)
(*                                                                         *)
(* State: the seven React state cells of SpeedTest, the browser's          *)
(* localStorage, the position and locals of every runTest() invocation,    *)
(* and whether a loadHistory() call is queued.                             *)
(*                                                                         *)
(* One action per segment of runTest between two awaits on the network:    *)
(* such a segment runs without interruption.  The awaits of saveResult and *)
(* loadHistory are on promises that are already settled (the storage       *)
(* object wraps the synchronous localStorage), so their continuations are  *)
(* microtasks: they run before the next network answer or click is         *)
(* handled.  A queued loadHistory() is therefore one step, and nothing     *)
(* else is handled while it is queued.  The wall clock is an input read    *)
(* where the code reads it.                                                *)
(*                                                                         *)
(* Units.  Times are integer microseconds (performance.now() differences), *)
(* throughputs are integer tenths of Mbps (the code keeps one fractional   *)
(* digit through toFixed(1)), byte counts are bytes, progress is percent.  *)
(***************************************************************************)
EXTENDS Integers, Sequences, FiniteSets, TLC

VARIABLES
    testing,        \* useState(false)                       App.js:89
    currentTest,    \* useState('')                          App.js:90
    results,        \* useState(null)                        App.js:91
    history,        \* useState([])                          App.js:92
    useCase,        \* useState(null)                        App.js:93
    insights,       \* useState(null)                        App.js:94
    progress,       \* useState(0)                           App.js:95
    localStorage,   \* the browser store behind `storage`    App.js:27-46
    heroMounted,    \* the "Initialize Test" panel is still in the DOM
    runs,           \* locals and position of each runTest() invocation
    started,        \* number of runTest() invocations so far
    reload,         \* a loadHistory() call is queued and has not run yet
    cancelAsked,    \* the user has asked to cancel and no run has ended since
    stubs           \* which family of transport answers the run draws from

vars == <<testing, currentTest, results, history, useCase, insights, progress,
          localStorage, heroMounted, runs, started, reload, cancelAsked,
          stubs>>

-----------------------------------------------------------------------------
(* Bounds of the model.                                                    *)

MaxRuns == 2          \* runTest() invocations followed under fixed stubs
MaxChunks == 2        \* body chunks a download delivers at most
ClockLow == 9         \* lowest wall-clock reading
ClockSpan == 1        \* the clock reads ClockLow .. ClockLow + ClockSpan

RunIds == 1..MaxRuns
ClockValues == ClockLow..(ClockLow + ClockSpan)

-----------------------------------------------------------------------------
(* JavaScript values.  Every value is a record with the same three fields  *)
(* so that any two of them can be compared.                                *)

Num(n) == [k |-> "number", n |-> n, s |-> ""]
Str(s) == [k |-> "string", n |-> 0, s |-> s]
Infinity == [k |-> "Infinity", n |-> 0, s |-> ""]
Null == [k |-> "null", n |-> 0, s |-> ""]
Undefined == [k |-> "undefined", n |-> 0, s |-> ""]
\* new Date().toLocaleString() at wall-clock time t: a string, not a number.
toLocaleString(t) == [k |-> "string", n |-> t, s |-> "toLocaleString"]

\* Boolean(v) as used by `a || b`, `value ? :` and filter(Boolean).
Truthy(v) ==
    CASE v.k = "null" -> FALSE
      [] v.k = "undefined" -> FALSE
      [] v.k = "string" -> ~(v.s = "" /\ v.n = 0)
      [] v.k = "number" -> v.n # 0
      [] OTHER -> TRUE

\* a || b
OrElse(a, b) == IF Truthy(a) THEN a ELSE b

-----------------------------------------------------------------------------
(* Strings that are sorted or matched are sequences of UTF-16 code units.  *)

\* 'speedtest:'                                              App.js:99,121
Prefix == <<115, 112, 101, 101, 100, 116, 101, 115, 116, 58>>

\* `${timestamp}` : the decimal rendering of a non-negative integer.
RECURSIVE Decimal(_)
Decimal(n) == IF n < 10 THEN <<48 + n>> ELSE Decimal(n \div 10) \o <<48 + (n % 10)>>

\* `speedtest:${timestamp}`                                  App.js:121
KeyOf(timestamp) == Prefix \o Decimal(timestamp)

\* k.startsWith(prefix)                                      App.js:42
startsWith(k, prefix) ==
    /\ Len(k) >= Len(prefix)
    /\ SubSeq(k, 1, Len(prefix)) = prefix

\* a < b in the order Array.prototype.sort() uses without a comparator:
\* code unit by code unit, a proper prefix first.
RECURSIVE LexLess(_, _)
LexLess(a, b) ==
    IF b = <<>> THEN FALSE
    ELSE IF a = <<>> THEN TRUE
    ELSE IF Head(a) # Head(b) THEN Head(a) < Head(b)
    ELSE LexLess(Tail(a), Tail(b))

\* keys.sort().reverse() : the keys, greatest first.       App.js:101
\* keys.sort() without the .reverse(): least key first.
RECURSIVE SortAscending(_)
SortAscending(S) ==
    IF S = {} THEN <<>>
    ELSE LET low == CHOOSE k \in S : \A j \in S \ {k} : LexLess(k, j)
         IN <<low>> \o SortAscending(S \ {low})

RECURSIVE SortReverse(_)
SortReverse(S) ==
    IF S = {} THEN <<>>
    ELSE LET top == CHOOSE k \in S : \A j \in S \ {k} : LexLess(j, k)
         IN <<top>> \o SortReverse(S \ {top})

\* a.slice(0, n)
Slice(a, n) == SubSeq(a, 1, IF Len(a) < n THEN Len(a) ELSE n)

-----------------------------------------------------------------------------
(* Stored texts.  A text is what JSON.stringify wrote, or any other string *)
(* another script of the same origin left in the store.                    *)

\* JSON.stringify of one property value: a non-finite number becomes null,
\* strings and finite numbers are kept (an undefined property is omitted,
\* which reads back as undefined).
JsonValue(v) == IF v.k = "Infinity" THEN Null ELSE v

\* JSON.stringify(obj) for an object of scalar properties.   App.js:121
JSONstringify(obj) ==
    [t |-> "json", v |-> [f \in DOMAIN obj |-> JsonValue(obj[f])]]

NotJson == [t |-> "notjson", v |-> Null]      \* a text JSON.parse rejects
EmptyText == [t |-> "empty", v |-> Null]      \* the empty string ''
NullText == [t |-> "json", v |-> Null]        \* the text 'null'

\* JSON.parse(text) throws a SyntaxError on these texts.     App.js:105
ParseThrows(text) == text.t # "json"
\* JSON.parse(text) otherwise.
JSONparse(text) == text.v

\* Boolean(x) for a parsed value: an object is truthy.       App.js:108
IsObject(x) == "ping" \in DOMAIN x
Boolean(x) == IF IsObject(x) THEN TRUE ELSE Truthy(x)

\* storage.get(key): null when the key is absent or holds ''. App.js:28-33
Missing == [t |-> "missing", v |-> Null]
storage_get(key) ==
    IF key \in DOMAIN localStorage /\ localStorage[key] # EmptyText
    THEN localStorage[key]
    ELSE Missing

\* storage.list(prefix).keys                                 App.js:40-45
storage_list(prefix) == {k \in DOMAIN localStorage : startsWith(k, prefix)}

\* localStorage after setItem(key, value).                   App.js:36
SetItem(key, value) ==
    [k \in DOMAIN localStorage \cup {key} |->
        IF k = key THEN value ELSE localStorage[k]]


-----------------------------------------------------------------------------
(* The arithmetic of runTest and generateInsights.                         *)

PingCount == 5                  \* for (let i = 0; i < 5; i++)   App.js:149
PingProgress == 6               \* setProgress(prev => prev + 6) App.js:153
downloadSize == 25000000        \*                               App.js:161
uploadSize == 5000000           \*                               App.js:177

RECURSIVE Sum(_)
Sum(a) == IF a = <<>> THEN 0 ELSE Head(a) + Sum(Tail(a))

Largest(a) == CHOOSE x \in {a[i] : i \in DOMAIN a} : \A i \in DOMAIN a : a[i] <= x
Smallest(a) == CHOOSE x \in {a[i] : i \in DOMAIN a} : \A i \in DOMAIN a : x <= a[i]

\* Math.round(x) for a >= 0, b > 0, where a / b is the exact value of what
\* the code computes as x in binary floating point from differences of
\* performance.now() readings.  Math.round rounds halves up, and x is off
\* the exact value by rounding errors that depend on the readings
\* themselves: when a / b lies exactly on a half, x is that half or falls
\* just below it, and the result is the integer above or the one below.
\* The set of the results the readings can give.
MathRound(a, b) ==
    LET up == (2 * a + b) \div (2 * b)
    IN IF (2 * a + b) % (2 * b) = 0 THEN {up - 1, up} ELSE {up}

\* Math.round(pings.reduce((a, b) => a + b) / pings.length), the samples
\* being microseconds and the results milliseconds.         App.js:155
PingOf(pings) == MathRound(Sum(pings), Len(pings) * 1000)

\* Math.round(sortedPings[last] - sortedPings[0])           App.js:156-157
JitterOf(pings) == MathRound(Largest(pings) - Smallest(pings), 1000)

\* parseFloat(((size * 8) / seconds / 1000000).toFixed(1)) in tenths of
\* Mbps, the elapsed time being `micros` microseconds: size * 8 / micros
\* Mbps to one digit; a division by zero is Infinity.  toFixed rounds the
\* floating-point quotient, which comes from a difference of
\* performance.now() readings: when the exact quotient lies halfway
\* between two tenths the result is the tenth above or the one below,
\* depending on the readings.  The set of the results they can give.
\*                                                App.js:172-173, 187-188
SpeedOf(size, micros) ==
    IF micros = 0 THEN {Infinity}
    ELSE LET q == (size * 80) \div micros
             r == (size * 80) % micros
         IN IF 2 * r = micros THEN {Num(q), Num(q + 1)}
            ELSE IF 2 * r > micros THEN {Num(q + 1)} ELSE {Num(q)}

\* 30 + (received / downloadSize) * 40                     App.js:170
\* (received is a multiple of downloadSize / 40 in this model)
DownloadProgress(received) == 30 + received \div (downloadSize \div 40)

\* v > limit and v < limit for a metric v (a number or Infinity) and a
\* limit in the metric's unit.
Greater(v, limit) == IF v.k = "Infinity" THEN TRUE ELSE v.n > limit
Less(v, limit) == IF v.k = "Infinity" THEN FALSE ELSE v.n < limit

\* Math.floor(download / 25), download in tenths of Mbps.  App.js:225
Streams(download) ==
    IF download.k = "Infinity" THEN Infinity ELSE Num(download.n \div 250)

\* The fallback object of the catch block, built at wall-clock time t.
\*                                                         App.js:206-209
fallback(t) ==
    [ping |-> Num(24), download |-> Num(824), upload |-> Num(312),
     jitter |-> Num(4), server |-> Str("Regional Cache"), ip |-> Undefined,
     timestamp |-> toLocaleString(t)]

\* data[id] of generateInsights.                           App.js:221-240
\* The decision table with inclusive thresholds (>= 25, <= 30, >= 10).
InsightData_inclusive(id, r) ==
    LET d == ~Less(r.download, 250)
        p == ~Greater(r.ping, 30)
        u == ~Less(r.upload, 100)
    IN CASE id = "streaming" ->
              [title |-> "Streaming 4K Content",
               status |-> IF d THEN "Seamless" ELSE "Limited",
               desc |-> IF d THEN "Perfect for ${n} concurrent UHD streams."
                        ELSE "Buffer risks on high quality.",
               n |-> IF d THEN Streams(r.download) ELSE Undefined,
               icon |-> "Globe"]
         [] id = "gaming" ->
              [title |-> "Competitive Gaming",
               status |-> IF p THEN "Elite" ELSE "Fair",
               desc |-> IF p THEN "Tournament-grade latency. Minimal input lag."
                        ELSE "Slight latency may be felt in shooters.",
               n |-> Undefined,
               icon |-> "Cpu"]
         [] id = "work" ->
              [title |-> "Remote Collaboration",
               status |-> IF u THEN "Professional" ELSE "Basic",
               desc |-> IF u THEN "High-speed sync for cloud backups and 4K calls."
                        ELSE "May struggle with large file uploads.",
               n |-> Undefined,
               icon |-> "Shield"]

InsightData(id, r) ==
    CASE id = "streaming" ->
           [title |-> "Streaming 4K Content",
            status |-> IF Greater(r.download, 250) THEN "Seamless" ELSE "Limited",
            desc |-> IF Greater(r.download, 250)
                     THEN "Perfect for ${n} concurrent UHD streams."
                     ELSE "Buffer risks on high quality.",
            n |-> IF Greater(r.download, 250) THEN Streams(r.download) ELSE Undefined,
            icon |-> "Globe"]
      [] id = "gaming" ->
           [title |-> "Competitive Gaming",
            status |-> IF Less(r.ping, 30) THEN "Elite" ELSE "Fair",
            desc |-> IF Less(r.ping, 30)
                     THEN "Tournament-grade latency. Minimal input lag."
                     ELSE "Slight latency may be felt in shooters.",
            n |-> Undefined,
            icon |-> "Cpu"]
      [] id = "work" ->
           [title |-> "Remote Collaboration",
            status |-> IF Greater(r.upload, 100) THEN "Professional" ELSE "Basic",
            desc |-> IF Greater(r.upload, 100)
                     THEN "High-speed sync for cloud backups and 4K calls."
                     ELSE "May struggle with large file uploads.",
            n |-> Undefined,
            icon |-> "Shield"]

Profiles == {"streaming", "gaming", "work"}                \* App.js:395-397


-----------------------------------------------------------------------------
(* What the network answers.  Under "fixed" stubs every probe answers the  *)
(* same way and up to MaxRuns invocations (also overlapping ones) are      *)
(* followed; under "varied" stubs the timings and the lookup answers vary  *)
(* and one invocation is followed.                                         *)

RunBudget == IF stubs = "varied" THEN 1 ELSE MaxRuns

\* Elapsed microseconds of one HEAD probe.
PingSamples == IF stubs = "varied" THEN {28000, 32500} ELSE {28000}
\* Sizes of the chunks reader.read() delivers, in bytes.
ChunkSizes == IF stubs = "varied" THEN {12500000, 25000000} ELSE {25000000}
\* Elapsed microseconds of the download and of the upload.
DownloadTimes ==
    IF stubs = "varied" THEN {0, 500, 2000000, 6400000, 8000000} ELSE {2000000}
UploadTimes == IF stubs = "varied" THEN {0, 1000000, 1280000, 4000000} ELSE {1000000}
\* The object netRes.json() resolves to.
NetDatas ==
    IF stubs = "varied"
    THEN {[org |-> Str("ExampleNet"), asn |-> Str("AS64500"), ip |-> Str("203.0.113.7")],
          [org |-> Undefined, asn |-> Str("AS64500"), ip |-> Undefined],
          [org |-> Undefined, asn |-> Undefined, ip |-> Str("203.0.113.7")]}
    ELSE {[org |-> Str("ExampleNet"), asn |-> Undefined, ip |-> Str("203.0.113.7")]}

-----------------------------------------------------------------------------
(* Initial states.                                                         *)

\* The locals of an invocation that has not started.
IdleRun ==
    [pc |-> "idle", isp |-> Undefined, ip |-> Undefined, envFailed |-> FALSE,
     pings |-> <<>>, ping |-> Undefined, jitter |-> Undefined,
     received |-> 0, reads |-> 0, downloadSpeed |-> Undefined]

\* A record an earlier session of this component stored at time t.
StoredAt(t) ==
    JSONstringify([ping |-> Num(20), download |-> Num(500), upload |-> Num(200),
                   jitter |-> Num(2), server |-> Str("ExampleNet"),
                   ip |-> Str("203.0.113.7"), timestamp |-> Num(t)])

\* What another script of the origin stored: an object under its own key.
ForeignKey == <<116, 104, 101, 109, 101>>                  \* 'theme'
ForeignText ==
    JSONstringify([ping |-> Num(0), download |-> Num(0), upload |-> Num(0),
                   jitter |-> Num(0), server |-> Str("not a speed test"),
                   ip |-> Undefined, timestamp |-> Num(0)])

EmptyStore == [k \in {} |-> NotJson]
StoreOf(S) == [k \in {e[1] : e \in S} |-> (CHOOSE e \in S : e[1] = k)[2]]

\* Contents of the store when the component mounts, for the runs of Spec:
\* a fresh origin, and one whose newest speed-test entry does not parse.
InitialStores ==
    { EmptyStore,
      StoreOf({<<KeyOf(7), NotJson>>}) }

\* Contents of the store when the component mounts, for the reads of
\* SpecHistory: under each of the keys speedtest:7 .. speedtest:12 nothing,
\* the record stored at that time, a text that does not parse or the empty
\* string, with or without the other script's entry.
StoredTimes == 7..12
EntryKinds == {"absent", "record", "notjson", "empty"}
StoreFrom(kind, foreign) ==
    [k \in {KeyOf(t) : t \in {u \in StoredTimes : kind[u] # "absent"}}
          \cup (IF foreign THEN {ForeignKey} ELSE {}) |->
        IF k = ForeignKey THEN ForeignText
        ELSE LET t == CHOOSE u \in StoredTimes : KeyOf(u) = k IN
             CASE kind[t] = "record" -> StoredAt(t)
               [] kind[t] = "notjson" -> NotJson
               [] OTHER -> EmptyText]
ArbitraryStores ==
    {StoreFrom(kind, foreign) : kind \in [StoredTimes -> EntryKinds], foreign \in BOOLEAN}

\* The state after SpeedTest has rendered once and its effect has called
\* loadHistory().                                   App.js:89-95, 115-117
Mounted ==
    /\ testing = FALSE
    /\ currentTest = ""
    /\ results = Null
    /\ history = <<>>
    /\ useCase = Null
    /\ insights = Null
    /\ progress = 0
    /\ heroMounted = TRUE
    /\ runs = [r \in RunIds |-> IdleRun]
    /\ started = 0
    /\ reload = TRUE
    /\ cancelAsked = FALSE

Init ==
    /\ Mounted
    /\ localStorage \in InitialStores
    /\ stubs = "fixed"

InitVaried ==
    /\ Mounted
    /\ localStorage = EmptyStore
    /\ stubs = "varied"

InitHistory ==
    /\ Mounted
    /\ localStorage \in ArbitraryStores
    /\ stubs = "fixed"

-----------------------------------------------------------------------------
(* saveResult and the two ways runTest ends.                               *)

\* {...result, timestamp} with timestamp = Date.now() = t.  App.js:120-121
Persisted(result, t) == [result EXCEPT !.timestamp = Num(t)]

\* saveResult giving up when storage.set returns null: no history read
\* follows a refused write.
saveResult_stopsOnNull(result, t, setOk) ==
    /\ localStorage' = IF setOk
                       THEN SetItem(KeyOf(t), JSONstringify(Persisted(result, t)))
                       ELSE localStorage
    /\ reload' = setOk

\* saveResult(result) up to its await, Date.now() reading t: setItem runs
\* at once and may throw (quota, storage disabled), which storage.set turns
\* into null.  What follows the await, loadHistory(), is queued.
\*                                                App.js:34-39, 119-123
saveResult(result, t, setOk) ==
    /\ localStorage' = IF setOk
                       THEN SetItem(KeyOf(t), JSONstringify(Persisted(result, t)))
                       ELSE localStorage
    /\ reload' = TRUE

\* Invocation r once it has returned: its locals are gone.
Returned(how) == [IdleRun EXCEPT !.pc = how]

\* The catch block showing the fallback record without handing it to
\* saveResult.
Catch_withoutAppend(r) ==
    \E shown \in ClockValues :
        /\ results' = fallback(shown)
        /\ testing' = FALSE
        /\ runs' = [runs EXCEPT ![r] = Returned("fellback")]
        /\ cancelAsked' = FALSE
        /\ UNCHANGED <<history, useCase, insights, heroMounted, started, stubs,
                       localStorage, reload>>

\* catch (e) { ... } finally { setTesting(false) }          App.js:204-214
\* currentTest and progress are left as the failing segment set them.
\* The wall clock is read twice: by new Date() for the time shown
\* (`shown`), then by Date.now() in saveResult for the key and the stored
\* time (t).
Catch(r) ==
    \E shown \in ClockValues, t \in ClockValues, setOk \in BOOLEAN :
        /\ results' = fallback(shown)
        /\ saveResult(fallback(shown), t, setOk)
        /\ testing' = FALSE
        /\ runs' = [runs EXCEPT ![r] = Returned("fellback")]
        /\ cancelAsked' = FALSE
        /\ UNCHANGED <<history, useCase, insights, heroMounted, started, stubs>>

\* finalResults of invocation r, given the upload speed and the reading t
\* of new Date().                                   App.js:190-198
FinalResults(r, uploadSpeed, t) ==
    [ping |-> runs[r].ping, download |-> runs[r].downloadSpeed,
     upload |-> uploadSpeed, jitter |-> runs[r].jitter,
     server |-> runs[r].isp, ip |-> runs[r].ip,
     timestamp |-> toLocaleString(t)]

-----------------------------------------------------------------------------
(* runTest, one action per segment between awaits.                         *)

\* A button bound to runTest is in the DOM: "Initialize Test" while the
\* hero panel is mounted (AnimatePresence keeps it mounted while its exit
\* animation plays), "Retest Connection" in the results view.
\*                                                App.js:279-308, 381-387
RunButtonShown == heroMounted \/ (results # Null /\ ~testing)

\* The hero panel's exit animation completes.      App.js:279-286
HeroExitComplete ==
    /\ ~reload
    /\ heroMounted
    /\ testing \/ results # Null
    /\ heroMounted' = FALSE
    /\ UNCHANGED <<testing, currentTest, results, history, useCase, insights,
                   progress, localStorage, runs, started, reload, cancelAsked,
                   stubs>>

\* runTest() up to the first await.                 App.js:125-136
runTest(r) ==
    /\ ~reload
    /\ RunButtonShown
    /\ started < RunBudget
    /\ r = started + 1
    /\ started' = r
    /\ testing' = TRUE
    /\ results' = Null
    /\ insights' = Null
    /\ useCase' = Null
    /\ progress' = 0
    /\ runs' = [runs EXCEPT ![r] = [IdleRun EXCEPT !.pc = "env",
                                      !.isp = Str("Detecting..."), !.ip = Str("")]]
    /\ UNCHANGED <<currentTest, history, localStorage, heroMounted, reload,
                   cancelAsked, stubs>>

\* Segment entered with the environment lookup settled, up to the first
\* HEAD probe.                                      App.js:138-151
StartPing(r, isp, ip, failed) ==
    /\ currentTest' = "ping"
    /\ runs' = [runs EXCEPT ![r] = [@ EXCEPT !.pc = "ping", !.isp = isp, !.ip = ip,
                                              !.envFailed = failed]]
    /\ UNCHANGED <<testing, results, history, useCase, insights, progress,
                   localStorage, heroMounted, started, reload, cancelAsked, stubs>>

\* await fetch('https://ipapi.co/json/') settles.   App.js:136, 142-144
\* The lookup with its inner try/catch removed: a rejected request reaches
\* the outer catch block.
runTest_lookup_aborts(r) ==
    /\ ~reload
    /\ runs[r].pc = "env"
    /\ \E ok \in BOOLEAN :
         IF ok
         THEN /\ runs' = [runs EXCEPT ![r].pc = "envjson"]
              /\ UNCHANGED <<testing, currentTest, results, history, useCase, insights,
                             progress, localStorage, heroMounted, started, reload,
                             cancelAsked, stubs>>
         ELSE /\ Catch(r)
              /\ UNCHANGED <<currentTest, progress>>

runTest_lookup(r) ==
    /\ ~reload
    /\ runs[r].pc = "env"
    /\ \E ok \in BOOLEAN :
         IF ok
         THEN /\ runs' = [runs EXCEPT ![r].pc = "envjson"]
              /\ UNCHANGED <<testing, currentTest, results, history, useCase, insights,
                             progress, localStorage, heroMounted, started, reload,
                             cancelAsked, stubs>>
         ELSE StartPing(r, Str("Local Network"), Str(""), TRUE)

\* await netRes.json() settles.                     App.js:137-144
runTest_json(r) ==
    /\ ~reload
    /\ runs[r].pc = "envjson"
    /\ \/ StartPing(r, Str("Local Network"), Str(""), TRUE)
       \/ \E netData \in NetDatas :
            StartPing(r,
                      OrElse(netData.org, OrElse(netData.asn, Str("Universal Host"))),
                      OrElse(netData.ip, Str("")),
                      FALSE)

\* The latency loop leaving for the download after its second probe.
runTest_ping_leavesEarly(r) ==
    /\ ~reload
    /\ runs[r].pc = "ping"
    /\ \/ /\ Catch(r)
          /\ UNCHANGED <<currentTest, progress>>
       \/ \E sample \in PingSamples :
            LET pings == Append(runs[r].pings, sample) IN
            /\ progress' = progress + PingProgress
            /\ IF Len(pings) < 2
               THEN /\ runs' = [runs EXCEPT ![r].pings = pings]
                    /\ UNCHANGED currentTest
               ELSE /\ \E avgPing \in PingOf(pings), jitter \in JitterOf(pings) :
                         runs' = [runs EXCEPT ![r] =
                                    [@ EXCEPT !.pc = "download", !.pings = pings,
                                              !.ping = Num(avgPing),
                                              !.jitter = Num(jitter)]]
                    /\ currentTest' = "download"
            /\ UNCHANGED <<testing, results, history, useCase, insights, localStorage,
                           heroMounted, started, reload, cancelAsked, stubs>>

\* await fetch(trace, HEAD) settles.                App.js:149-163
runTest_ping(r) ==
    /\ ~reload
    /\ runs[r].pc = "ping"
    /\ \/ /\ Catch(r)
          /\ UNCHANGED <<currentTest, progress>>
       \/ \E sample \in PingSamples :
            LET pings == Append(runs[r].pings, sample) IN
            /\ progress' = progress + PingProgress
            /\ IF Len(pings) < PingCount
               THEN /\ runs' = [runs EXCEPT ![r].pings = pings]
                    /\ UNCHANGED currentTest
               ELSE /\ \E avgPing \in PingOf(pings), jitter \in JitterOf(pings) :
                         runs' = [runs EXCEPT ![r] =
                                    [@ EXCEPT !.pc = "download", !.pings = pings,
                                              !.ping = Num(avgPing),
                                              !.jitter = Num(jitter)]]
                    /\ currentTest' = "download"
            /\ UNCHANGED <<testing, results, history, useCase, insights, localStorage,
                           heroMounted, started, reload, cancelAsked, stubs>>

\* await fetch(__down) settles.                     App.js:163-167
runTest_download(r) ==
    /\ ~reload
    /\ runs[r].pc = "download"
    /\ \/ /\ Catch(r)
          /\ UNCHANGED <<currentTest, progress>>
       \/ /\ runs' = [runs EXCEPT ![r] = [@ EXCEPT !.pc = "read", !.received = 0,
                                                     !.reads = 0]]
          /\ UNCHANGED <<testing, currentTest, results, history, useCase, insights,
                         progress, localStorage, heroMounted, started, reload,
                         cancelAsked, stubs>>

\* await reader.read() settles: the stream fails, delivers a chunk, or
\* ends.  When it ends the speed is computed, the phase becomes 'upload'
\* and crypto.getRandomValues is asked for uploadSize bytes: a host that
\* enforces the Web Crypto quota of 65536 bytes throws here, any other
\* fills the buffer and the POST is issued.         App.js:166-186
runTest_read(r) ==
    /\ ~reload
    /\ runs[r].pc = "read"
    /\ \/ /\ Catch(r)
          /\ UNCHANGED <<currentTest, progress>>
       \/ \E size \in ChunkSizes :
            /\ runs[r].reads < MaxChunks
            /\ runs' = [runs EXCEPT ![r] = [@ EXCEPT !.received = @ + size,
                                                      !.reads = @ + 1]]
            /\ progress' = DownloadProgress(runs[r].received + size)
            /\ UNCHANGED <<testing, currentTest, results, history, useCase, insights,
                           localStorage, heroMounted, started, reload, cancelAsked,
                           stubs>>
       \/ \E micros \in DownloadTimes, quotaExceeded \in BOOLEAN :
            /\ currentTest' = "upload"
            /\ UNCHANGED progress
            /\ IF quotaExceeded
               THEN Catch(r)
               ELSE /\ \E downloadSpeed \in SpeedOf(downloadSize, micros) :
                         runs' = [runs EXCEPT ![r] =
                                    [@ EXCEPT !.pc = "upload",
                                              !.downloadSpeed = downloadSpeed]]
                    /\ UNCHANGED <<testing, results, history, useCase, insights,
                                   localStorage, heroMounted, started, reload,
                                   cancelAsked, stubs>>

\* await fetch(__up, POST) settles.  The wall clock is read twice: by
\* new Date() for the time shown (`shown`), then by Date.now() in
\* saveResult for the key and the stored time (t).
\*                                                App.js:182-203, 212-214
runTest_upload(r) ==
    /\ ~reload
    /\ runs[r].pc = "upload"
    /\ \/ /\ Catch(r)
          /\ UNCHANGED <<currentTest, progress>>
       \/ \E micros \in UploadTimes, shown \in ClockValues, t \in ClockValues,
             setOk \in BOOLEAN :
          \E uploadSpeed \in SpeedOf(uploadSize, micros) :
            LET finalResults == FinalResults(r, uploadSpeed, shown) IN
            /\ results' = finalResults
            /\ saveResult(finalResults, t, setOk)
            /\ progress' = 100
            /\ currentTest' = "finished"
            /\ testing' = FALSE
            /\ runs' = [runs EXCEPT ![r] = Returned("finished")]
            /\ cancelAsked' = FALSE
            /\ UNCHANGED <<history, useCase, insights, heroMounted, started, stubs>>

-----------------------------------------------------------------------------
(* loadHistory.                                                            *)

HistorySize == 5                \* sortedKeys.slice(0, 5)       App.js:103

\* sortedKeys.slice(0, 5) for the listed keys.      App.js:99-103
SelectedKeys == Slice(SortReverse(storage_list(Prefix)), HistorySize)

\* The values storage.get returns for the selected keys.  App.js:104
FetchedValues == [i \in DOMAIN SelectedKeys |-> storage_get(SelectedKeys[i])]

\* One JSON.parse throws: Promise.all rejects and the catch block only
\* logs.                                            App.js:102-112
LoadThrows(vals) == \E i \in DOMAIN vals : vals[i] # Missing /\ ParseThrows(vals[i])

\* What loadHistory hands to setHistory for the fetched values `vals`.
\*                                                App.js:105-108
historyData(vals) ==
    SelectSeq([i \in DOMAIN vals |->
                  IF vals[i] = Missing THEN Null ELSE JSONparse(vals[i])],
              Boolean)

\* The queued loadHistory() runs to its end.        App.js:97-113
loadHistory ==
    /\ reload
    /\ reload' = FALSE
    /\ history' = IF LoadThrows(FetchedValues) THEN history
                  ELSE historyData(FetchedValues)
    /\ UNCHANGED <<testing, currentTest, results, useCase, insights, progress,
                   localStorage, heroMounted, runs, started, cancelAsked, stubs>>

-----------------------------------------------------------------------------
(* generateInsights and the user.                                          *)

\* The profile buttons are rendered in the results view only.
\*                                                App.js:280, 308, 341, 394-411
ProfileButtonsShown == results # Null /\ ~testing /\ ~heroMounted

\* generateInsights(id)                             App.js:217-242
generateInsights(id) ==
    /\ ~reload
    /\ ProfileButtonsShown
    /\ useCase' = Str(id)
    /\ insights' = InsightData(id, results)
    /\ UNCHANGED <<testing, currentTest, results, history, progress, localStorage,
                   heroMounted, runs, started, reload, cancelAsked, stubs>>

\* The user asks for the measurement in flight to be cancelled.  The
\* component renders no control for it and passes no AbortSignal to fetch:
\* the request changes nothing the program reads.    App.js:125-215
Cancel ==
    /\ ~reload
    /\ \E r \in RunIds : runs[r].pc \notin {"idle", "finished", "fellback"}
    /\ ~cancelAsked
    /\ cancelAsked' = TRUE
    /\ UNCHANGED <<testing, currentTest, results, history, useCase, insights,
                   progress, localStorage, heroMounted, runs, started, reload,
                   stubs>>

Next ==
    \/ \E r \in RunIds : runTest(r)
    \/ \E r \in RunIds : runTest_lookup(r)
    \/ \E r \in RunIds : runTest_json(r)
    \/ \E r \in RunIds : runTest_ping(r)
    \/ \E r \in RunIds : runTest_download(r)
    \/ \E r \in RunIds : runTest_read(r)
    \/ \E r \in RunIds : runTest_upload(r)
    \/ loadHistory
    \/ \E id \in Profiles : generateInsights(id)
    \/ Cancel
    \/ HeroExitComplete

Spec == Init /\ [][Next]_vars

\* One run of runTest with varied network answers, from an empty store.
SpecVaried == InitVaried /\ [][Next]_vars

\* The history read alone, over arbitrary store contents.
NextHistory == loadHistory

SpecHistory == InitHistory /\ [][NextHistory]_vars

-----------------------------------------------------------------------------
(* Properties.                                                             *)

InFlight == {"env", "envjson", "ping", "download", "read", "upload"}
Ended == {"finished", "fellback"}

\* results is a record built by the catch block.
FellBackShown == results # Null /\ results.server = Str("Regional Cache")

\* The store holds results as saveResult writes it when Date.now() reads t
\* (the time on display is another reading of the clock and is not
\* stored).
ShownIsStoredAt(t) ==
    /\ KeyOf(t) \in DOMAIN localStorage
    /\ localStorage[KeyOf(t)] = JSONstringify(Persisted(results, t))

\* The store holds results as saveResult writes it.
ShownIsStored == \E t \in ClockValues : ShownIsStoredAt(t)

\* No key under the prefix sorts after the key of time t.
IsNewestKey(t) == \A k \in storage_list(Prefix) : ~LexLess(KeyOf(t), k)

\* C1 as stated: after a run has failed in phase 1, 2 or 3, its fallback
\* record has been written to the store and the history read that follows
\* the write has run, the first record of the history is that record, as
\* stored (no stored key sorts after its key).
C1_Original ==
    \A t \in ClockValues :
        (FellBackShown /\ ~reload /\ ShownIsStoredAt(t) /\ IsNewestKey(t)) =>
            Len(history) >= 1 /\ history[1] = Persisted(results, t)

\* C2 as stated: every run that returns, through the try block or through
\* the catch block, returns with the phase 'finished' and progress 100.
C2_Original ==
    [][\A r \in RunIds :
          (runs[r].pc \in InFlight /\ runs'[r].pc \in Ended) =>
              currentTest' = "finished" /\ progress' = 100]_vars

\* C3 as stated: a call of runTest while a run is in progress starts
\* nothing and changes no state.
C3_Original ==
    [][(testing /\ started' # started) =>
          /\ runs' = runs
          /\ progress' = progress
          /\ currentTest' = currentTest
          /\ results' = results]_vars

\* C4 as stated: once cancellation has been asked for, the run in flight
\* produces no Result Record and appends nothing to the store.
C4_Original ==
    [][cancelAsked => (results' = results /\ localStorage' = localStorage)]_vars

\* C5: a failed environment lookup never ends the run: the segment that
\* handles it goes on to the first latency probe with the label 'Local
\* Network' and an empty client address, and a run that then completes
\* shows that label, that address and the metrics computed from its own
\* probes alone (the mean and spread of its five samples, the download and
\* upload speeds of its own transfers).
C5_LookupStep ==
    \A r \in RunIds :
        /\ runs[r].pc \in {"env", "envjson"} => runs'[r].pc \in {"env", "envjson", "ping"}
        /\ (runs[r].pc \in {"env", "envjson"} /\ runs'[r].pc = "ping" /\ runs'[r].envFailed) =>
               /\ runs'[r].isp = Str("Local Network")
               /\ runs'[r].ip = Str("")
        /\ (runs[r].pc = "upload" /\ runs'[r].pc = "finished") =>
               /\ runs[r].envFailed =>
                      results'.server = Str("Local Network") /\ results'.ip = Str("")
               /\ results'.ping = runs[r].ping
               /\ results'.jitter = runs[r].jitter
               /\ results'.ping.n \in PingOf(runs[r].pings)
               /\ results'.jitter.n \in JitterOf(runs[r].pings)
               /\ results'.download = runs[r].downloadSpeed
               /\ \E m \in DownloadTimes : results'.download \in SpeedOf(downloadSize, m)
               /\ \E m \in UploadTimes : results'.upload \in SpeedOf(uploadSize, m)

C5_LookupNeverAborts == [][C5_LookupStep]_vars

\* A run whose lookup failed has completed all phases and shows its
\* measured metrics under the label 'Local Network'.
C5_Witness ==
    /\ results # Null
    /\ results.server = Str("Local Network")
    /\ results.ip = Str("")
    /\ results.ping = Num(30)
    /\ results.download = Num(1000)
    /\ results.upload = Num(400)
    /\ currentTest = "finished"

\* C6 as stated: while a run is in progress no step lowers progress, and
\* progress is 100 when the phase becomes 'finished'.
C6_Original ==
    [][/\ testing => progress' >= progress
       /\ (currentTest # "finished" /\ currentTest' = "finished") => progress' = 100]_vars

\* The keys under the prefix, and the HistorySize greatest of them.
Prefixed == storage_list(Prefix)
NewestKeys == {k \in Prefixed : Cardinality({j \in Prefixed : LexLess(k, j)}) < HistorySize}

\* What a history read returns, apart from the order: at most HistorySize
\* records, each the parsed value of one of the HistorySize greatest keys
\* under the prefix, none of them the value of a key without the prefix.
C7_Selection ==
    /\ Len(history) <= HistorySize
    /\ \A i \in DOMAIN history :
          /\ \E k \in NewestKeys :
                /\ localStorage[k] # EmptyText
                /\ ~ParseThrows(localStorage[k])
                /\ JSONparse(localStorage[k]) = history[i]
          /\ history[i] # JSONparse(ForeignText)

\* C7 (amended): for any contents of the store the history read returns at
\* most 5 records, taken from the 5 greatest keys under the prefix, in
\* descending order of their keys as strings, and never a value stored
\* under a key without the prefix.
C7_RecentByKey ==
    ~reload =>
        /\ C7_Selection
        /\ \A i, j \in DOMAIN history :
              i < j => LexLess(KeyOf(history[j].timestamp.n), KeyOf(history[i].timestamp.n))

\* C7 as stated: the records come in descending capturedAt order.
C7_Original ==
    ~reload =>
        /\ C7_Selection
        /\ \A i, j \in DOMAIN history :
              i < j => history[i].timestamp.n >= history[j].timestamp.n

\* A read over a store with more than HistorySize keys under the prefix
\* and another script's entry has returned HistorySize records.
C7_Witness ==
    /\ ~reload
    /\ Cardinality(Prefixed) > HistorySize
    /\ ForeignKey \in DOMAIN localStorage
    /\ Len(history) = HistorySize

\* The selected values that are present and parse, parsed.
Parseable(text) == text # Missing /\ ~ParseThrows(text)
ParsedOf(vals) == [i \in DOMAIN vals |-> JSONparse(vals[i])]

\* C8 as stated: the history read returns every selected entry that is
\* present and parses to a record, whatever the other selected entries
\* hold.
C8_Original ==
    ~reload => history = SelectSeq(ParsedOf(SelectSeq(FetchedValues, Parseable)), Boolean)

ResultFields == {"ping", "jitter", "download", "upload", "server", "ip", "timestamp"}

\* C9 as stated: once a Result Record has been appended and read back as
\* the first record of the history, that record equals it in every metric
\* field and in every string field.
C9_Original ==
    \A t \in ClockValues :
        (results # Null /\ ~reload /\ ShownIsStoredAt(t) /\ IsNewestKey(t)
            /\ ~LoadThrows(FetchedValues)) =>
                /\ Len(history) >= 1
                /\ \A f \in ResultFields : history[1][f] = results[f]

\* The decision table of the insight engine: the Assessment of profile id
\* for the record r.
C10_Table(id, r, assessment) ==
    /\ id = "streaming" =>
          LET hit == r.download.k = "Infinity" \/ r.download.n > 250 IN
          /\ assessment.title = "Streaming 4K Content"
          /\ assessment.status = (IF hit THEN "Seamless" ELSE "Limited")
          /\ hit => /\ assessment.desc = "Perfect for ${n} concurrent UHD streams."
                    /\ assessment.n = (IF r.download.k = "Infinity" THEN Infinity
                                       ELSE Num(r.download.n \div 250))
          /\ ~hit => /\ assessment.desc = "Buffer risks on high quality."
                     /\ assessment.n = Undefined
          /\ assessment.icon = "Globe"
    /\ id = "gaming" =>
          LET hit == r.ping.n < 30 IN
          /\ assessment.title = "Competitive Gaming"
          /\ assessment.status = (IF hit THEN "Elite" ELSE "Fair")
          /\ assessment.desc = (IF hit THEN "Tournament-grade latency. Minimal input lag."
                                ELSE "Slight latency may be felt in shooters.")
          /\ assessment.n = Undefined
          /\ assessment.icon = "Cpu"
    /\ id = "work" =>
          LET hit == r.upload.k = "Infinity" \/ r.upload.n > 100 IN
          /\ assessment.title = "Remote Collaboration"
          /\ assessment.status = (IF hit THEN "Professional" ELSE "Basic")
          /\ assessment.desc = (IF hit THEN "High-speed sync for cloud backups and 4K calls."
                                ELSE "May struggle with large file uploads.")
          /\ assessment.n = Undefined
          /\ assessment.icon = "Shield"

\* One evaluation of the insight engine: it sets the chosen profile and
\* the Assessment of the table, leaves the record alone, and when the
\* Assessment on display is already that of this profile for this record,
\* the new one equals it.
C10_Step ==
    \A id \in Profiles :
        generateInsights(id) =>
            /\ useCase' = Str(id)
            /\ results' = results
            /\ C10_Table(id, results, insights')
            /\ (insights # Null /\ useCase = Str(id) /\ C10_Table(id, results, insights)) =>
                   insights' = insights

\* C10: the Assessment follows the decision table with strict
\* inequalities (download > 25 gives 'Seamless' and floor(download / 25)
\* streams, else 'Limited'; ping < 30 gives 'Elite', else 'Fair';
\* upload > 10 gives 'Professional', else 'Basic'), it changes nothing but
\* the chosen profile and the Assessment, and evaluating the same profile
\* again on the same record gives the same Assessment.
C10_Insights == [][C10_Step]_vars

\* A record with download = 25, ping = 30 and upload = 10 is displayed and
\* an Assessment with the miss label has been computed from it.
C10_Witness ==
    /\ results # Null
    /\ results.download = Num(250)
    /\ results.ping = Num(30)
    /\ results.upload = Num(100)
    /\ insights # Null
    /\ insights.status \in {"Limited", "Fair", "Basic"}

\* Invocation r returns in this step.
Returns(r) == runs[r].pc \in InFlight /\ runs'[r].pc \in Ended

\* The record the returning invocation sets is a whole Result Record of
\* its path: the fallback tuple from the catch block, its own measurements
\* from the try block.
C11_Shown(r) ==
    /\ results' # Null
    /\ runs'[r].pc = "fellback" =>
           \E t \in ClockValues : results' = fallback(t)
    /\ runs'[r].pc = "finished" =>
           /\ results'.ping = runs[r].ping
           /\ results'.jitter = runs[r].jitter
           /\ results'.download = runs[r].downloadSpeed
           /\ results'.server = runs[r].isp
           /\ currentTest' = "finished"
           /\ progress' = 100

\* C11: when the store refuses the write (storage.set returns null and the
\* store is left as it was), the run still returns, with its Result Record
\* on display and the testing flag cleared, the history read still
\* follows, and that read leaves the record, the phase and the progress
\* value as the run set them.
C11_AppendFailure ==
    [][/\ \A r \in RunIds :
             (Returns(r) /\ localStorage' = localStorage) =>
                 /\ C11_Shown(r)
                 /\ ~testing'
                 /\ reload'
       /\ loadHistory =>
             /\ results' = results
             /\ testing' = testing
             /\ currentTest' = currentTest
             /\ progress' = progress]_vars

\* A run has returned and its record is displayed, the store has refused
\* the write (no entry under a key of this process's clock), and the
\* history read has run.
C11_Witness ==
    /\ results # Null
    /\ ~reload
    /\ ~testing
    /\ \E r \in RunIds : runs[r].pc = "finished"
    /\ currentTest = "finished"
    /\ \A t \in ClockValues : KeyOf(t) \notin DOMAIN localStorage

\* The capture times of the records this process has persisted: the
\* stored keys that render a time its clock can read (the entries the
\* store holds at mount are older).
PersistedHere == {t \in ClockValues : KeyOf(t) \in DOMAIN localStorage}

\* The store takes a record under the key of time t in this step.
Persists(t) ==
    /\ KeyOf(t) \in DOMAIN localStorage'
    /\ KeyOf(t) \notin DOMAIN localStorage \/ localStorage'[KeyOf(t)] # localStorage[KeyOf(t)]

\* C12 as stated: whenever a record is persisted, its capturedAt is not
\* less than the capturedAt of any record this process persisted before,
\* whatever Date.now() returns.
C12_Original ==
    [][\A t \in ClockValues : Persists(t) => \A u \in PersistedHere : u <= t]_vars

\* The request an invocation waits on, by position, and the positions that
\* may follow each: lookup, its body, the five probes, the download
\* response, its chunks, the upload; the catch block may end any of phases
\* 1 to 3.
C13_Follows ==
    {<<"idle", "env">>, <<"env", "envjson">>, <<"env", "ping">>, <<"envjson", "ping">>,
     <<"ping", "ping">>, <<"ping", "download">>, <<"ping", "fellback">>,
     <<"download", "read">>, <<"download", "fellback">>,
     <<"read", "read">>, <<"read", "upload">>, <<"read", "fellback">>,
     <<"upload", "finished">>, <<"upload", "fellback">>}

\* One step of invocation r keeps the order of the phases: each request is
\* issued when the one before it has settled, each probe adds one sample,
\* and the download is asked for when the fifth sample is in.
C13_Step(r) ==
    runs'[r] # runs[r] =>
        /\ <<runs[r].pc, runs'[r].pc>> \in C13_Follows
        /\ (runs[r].pc = "ping" /\ runs'[r].pc \in {"ping", "download"}) =>
               /\ Len(runs'[r].pings) = Len(runs[r].pings) + 1
               /\ runs'[r].pc = "download" <=> Len(runs'[r].pings) = PingCount
        /\ \A q \in RunIds \ {r} : runs'[q] = runs[q]

\* Where an invocation stands fixes how many probes have answered.
C13_Samples ==
    \A r \in RunIds :
        /\ runs[r].pc \in {"env", "envjson"} => runs[r].pings = <<>>
        /\ runs[r].pc = "ping" => Len(runs[r].pings) < PingCount
        /\ runs[r].pc \in {"download", "read", "upload"} => Len(runs[r].pings) = PingCount

\* C13: in every run the phases execute in the order lookup, latency,
\* download, upload; the run waits on one request at a time and issues the
\* next only when that one has settled; the five latency probes are issued
\* one after another.
C13_Sequential == [][\A r \in RunIds : C13_Step(r)]_vars /\ []C13_Samples

\* A run that went through the lookup, five probes and a download of two
\* chunks is waiting on its upload.
C13_Witness ==
    \E r \in RunIds :
        /\ runs[r].pc = "upload"
        /\ Len(runs[r].pings) = PingCount
        /\ runs[r].reads = 2

\* C14 as stated: when the download stream ends with `received` bytes
\* observed, not more than were requested, the download speed is that of
\* `received` bytes in the elapsed time, and with fewer bytes than
\* requested it is below the speed of a full delivery in the same time.
C14_Original ==
    [][\A r \in RunIds :
          (runs[r].pc = "read" /\ runs'[r].pc = "upload"
              /\ runs[r].received > 0 /\ runs[r].received <= downloadSize) =>
                 \E m \in DownloadTimes :
                    /\ runs'[r].downloadSpeed \in SpeedOf(runs[r].received, m)
                    /\ (runs[r].received < downloadSize /\ m > 0) =>
                           \A full \in SpeedOf(downloadSize, m) :
                              Less(runs'[r].downloadSpeed, full.n)]_vars

\* The samples of the example, in microseconds.
C15_Example == <<10000, 12000, 11000, 13000, 14000>>

\* p is total / (1000 * count) rounded to a nearest integer (the samples
\* are floating-point readings, so at an exact half either neighbour is
\* the rounded value of what was measured).
C15_Rounds(p, total, count) ==
    /\ 2 * 1000 * count * p - 1000 * count <= 2 * total
    /\ 2 * total <= 2 * 1000 * count * p + 1000 * count

\* C15 as stated: every probe adds 6 to the progress value; when the
\* latency phase ends it has collected exactly 5 samples, ping is the
\* rounded mean of the 5 and jitter the rounded difference of the greatest
\* and the least of them, not negative, and the progress value is 30; the
\* samples 10, 12, 11, 13, 14 ms give ping 12 and jitter 4.
C15_Original ==
    [][\A r \in RunIds :
          /\ (runs[r].pc = "ping" /\ runs'[r].pc \in {"ping", "download"}
                 /\ runs'[r] # runs[r]) =>
                 progress' = progress + 6
          /\ (runs[r].pc = "ping" /\ runs'[r].pc = "download") =>
                 LET pings == runs'[r].pings IN
                 /\ Len(pings) = 5
                 /\ C15_Rounds(runs'[r].ping.n, Sum(pings), 5)
                 /\ C15_Rounds(runs'[r].jitter.n, Largest(pings) - Smallest(pings), 1)
                 /\ runs'[r].jitter.n >= 0
                 /\ PingOf(C15_Example) = {12}
                 /\ JitterOf(C15_Example) = {4}
                 /\ progress' = 30]_vars

Metrics == {"ping", "jitter", "download", "upload"}

\* The four metrics of the record rec are numbers, finite and not
\* negative.
C16_Sound(rec) == \A f \in Metrics : rec[f].k = "number" /\ rec[f].n >= 0

\* C16 as stated: the record on display and every record in the store
\* have all four metrics present, finite and not negative, also when the
\* elapsed time of a transfer measures 0.
C16_Original ==
    /\ results # Null => C16_Sound(results)
    /\ \A k \in Prefixed : localStorage[k].t = "json" => C16_Sound(localStorage[k].v)

\* 30 + 40 * (received / downloadSize) held within [30, 70].
C17_Clamped(received) ==
    LET raw == 30 + received \div (downloadSize \div 40) IN
    IF raw > 70 THEN 70 ELSE IF raw < 30 THEN 30 ELSE raw

\* C17 as stated: after every chunk read the progress value is
\* 30 + 40 * (received / requestedSize) clamped to [30, 70].
C17_Original ==
    [][\A r \in RunIds :
          (runs[r].pc = "read" /\ runs'[r].pc = "read"
              /\ runs'[r].received > runs[r].received) =>
                 /\ progress' = C17_Clamped(runs'[r].received)
                 /\ progress' <= 70]_vars

\* The one write the returning invocation hands to the store: the record
\* it has just set, stamped with the reading t of Date.now() and under the
\* key of t.
C18_Write(t) == SetItem(KeyOf(t), JSONstringify(Persisted(results', t)))

\* One step, for the appends: a step in which an invocation returns sets
\* one record and appends that record once (the store takes it or refuses
\* it) and queues the history read; no other step writes to the store or
\* queues a read; an invocation that has returned does nothing more.
C18_Step ==
    /\ \A r \in RunIds :
          /\ Returns(r) =>
                /\ results' # Null
                /\ \/ localStorage' = localStorage
                   \/ \E t \in ClockValues : localStorage' = C18_Write(t)
                /\ ~reload /\ reload'
                /\ \A q \in RunIds \ {r} : runs'[q] = runs[q]
          /\ runs[r].pc \in Ended => runs'[r] = runs[r]
    /\ (\A r \in RunIds : ~Returns(r)) =>
          /\ localStorage' = localStorage
          /\ reload' => reload

\* C18: every run that returns performs exactly one History append, of
\* the measured record on the try path and of the fallback record on the
\* catch path, never both and never neither, in whichever phase it
\* failed.
C18_OneAppend == [][C18_Step]_vars

\* A run has returned on the try path and the store holds the record it
\* appended and nothing else.
C18_Witness ==
    /\ \E r \in RunIds : runs[r].pc = "finished"
    /\ results # Null
    /\ ShownIsStored
    /\ Cardinality(DOMAIN localStorage) = 1
    /\ ~reload

\* The newest (up to HistorySize) records in the store: the selected
\* entries that are present and parse to a record, newest key first.
C19_Newest == SelectSeq(ParsedOf(SelectSeq(FetchedValues, Parseable)), Boolean)

\* C19 as stated: once every queued history read has run, the history on
\* display is the newest (up to 5) records in the store, and when the
\* record on display has been appended, the history includes it.
C19_Original ==
    ~reload =>
        /\ history = C19_Newest
        /\ (results # Null /\ ShownIsStored) =>
               \E t \in ClockValues :
                  /\ ShownIsStoredAt(t)
                  /\ \E i \in DOMAIN history : history[i] = Persisted(results, t)

\* Some invocation of runTest has started and not returned.
RunInFlight == \E r \in RunIds : runs[r].pc \in InFlight

\* C20 as stated: the testing flag is true exactly while a run is in
\* flight, and once a run has returned and none is in flight a button that
\* starts a run is on display.
C20_Original ==
    /\ testing <=> RunInFlight
    /\ ((\E r \in RunIds : runs[r].pc \in Ended) /\ ~RunInFlight) => RunButtonShown

\* The Assessment on display is the one the decision table gives for the
\* selected profile and the record on display.
C21_Current ==
    insights # Null =>
        /\ results # Null
        /\ useCase # Null
        /\ \E id \in Profiles : useCase = Str(id) /\ C10_Table(id, results, insights)

\* Starting a run clears the record, the Assessment, the profile and the
\* progress value together; the insight engine is invoked only while a
\* record is on display and no run is in flight.
C21_Step ==
    /\ \A r \in RunIds :
          runTest(r) => /\ results' = Null /\ insights' = Null
                        /\ useCase' = Null /\ progress' = 0
    /\ \A id \in Profiles :
          generateInsights(id) => results # Null /\ ~RunInFlight

\* C21 as stated: in every reachable state an Assessment implies a record
\* and a selected profile and was computed from the record on display;
\* runs clear the four cells together and the insight engine runs only
\* while a record is on display and no run is in flight.
C21_Original == []C21_Current /\ [][C21_Step]_vars

====
